---------------------------- MODULE Spec2Model ----------------------------
(***************************************************************************)
(* Model of the inventory-allocation service: the Batch entity and the     *)
(* Product aggregate of allocation/domain/models.py, and the message bus   *)
(* of allocation/service_layer/messagebus.py with the command handlers of  *)
(* allocation/service_layer/handlers.py.                                   *)
(*                                                                         *)
(* Three specifications share the module's variables:                      *)
(*   SpecBatch    one Batch driven by allocate / deallocate calls          *)
(*   SpecProduct  one Product driven by Product.allocate calls             *)
(*   SpecBus      messagebus.handle runs over a repository of products     *)
(***************************************************************************)
EXTENDS Integers, Sequences, FiniteSets, TLC

VARIABLES
    batch,      \* SpecBatch: the Batch object under test
    call,       \* SpecBatch/SpecProduct: the last domain call and its outcome
    product,    \* SpecProduct: the Product aggregate under test
    repo,       \* SpecBus: uow.products, sku -> Product (NoProduct: absent)
    pending,    \* SpecBus: events on the aggregates, not yet collected
    queue,      \* SpecBus: handle's local queue
    results,    \* SpecBus: handle's local results
    pc,         \* SpecBus: where handle is
    current,    \* SpecBus: msg, the message popped last
    todo,       \* SpecBus: handlers of msg still to run (handle_event's loop)
    error,      \* SpecBus: the exception handle propagated, None otherwise
    registry,   \* SpecBus: EVENT_HANDLERS
    hist        \* SpecBus: record of this handle run, kept for the claims

domvars == <<batch, call, product>>
busvars == <<repo, pending, queue, results, pc, current, todo, error,
             registry, hist>>
vars == <<batch, call, product, repo, pending, queue, results, pc, current,
          todo, error, registry, hist>>

(***************************************************************************)
(* Bounds of the model.                                                    *)
(***************************************************************************)
MaxQty == 2            \* largest OrderLine.qty drawn
MaxPurchased == 3      \* largest purchased quantity of a batch
MaxEvents == 4         \* Batch.events is not extended beyond this length
MaxRuns == 3           \* calls of messagebus.handle in one behaviour
MaxBatches == 2        \* batches in the repository (CreateBatch is capped)
MaxHarvest == 2        \* messages event handlers stage during one handle run
MaxEta == 2            \* etas are None or the dates DateMin..MaxEta (ordinals)

\* date.min, as its proleptic ordinal (date.min.toordinal() = 1).
DateMin == 1

\* eta is None or a date; dates are their ordinals, and NoEta (no ordinal
\* of any date) stands for None.
NoEta == DateMin - 1
Etas == {NoEta} \cup (DateMin..MaxEta)

None == "None"
OrderIds == {"o1", "o2"}
Skus == {"SKU-1", "SKU-2"}

\* models.py OrderLine: a frozen dataclass, equal by value.
OrderLine == [orderid : OrderIds, sku : Skus, qty : 1..MaxQty]

\* events.py BatchAllocated / OutOfStock records, tagged by their class.
BatchAllocated(orderid, sku, qty, batchref) ==
    [type |-> "BatchAllocated", orderid |-> orderid, sku |-> sku,
     qty |-> qty, batchref |-> batchref]

OutOfStock(sku) ==
    [type |-> "OutOfStock", orderid |-> None, sku |-> sku,
     qty |-> 0, batchref |-> None]

\* exceptions.py: __init__(self, orderid, sku, qty, message=None).  A call
\* that passes fewer than three arguments fails inside the constructor call
\* with TypeError, and that is the exception the raise statement propagates.
CannotAllocateError(nargs) ==
    IF nargs >= 3 /\ nargs <= 4 THEN "CannotAllocateError" ELSE "TypeError"

\* Batch.__init__
Batch(ref, sku, purchased_qty, eta) ==
    [reference |-> ref, sku |-> sku, eta |-> eta,
     purchased_quantity |-> purchased_qty,
     allocations |-> {}, events |-> <<>>]

RECURSIVE SumQty(_)
SumQty(lines) ==
    IF lines = {} THEN 0
    ELSE LET l == CHOOSE x \in lines : TRUE
         IN l.qty + SumQty(lines \ {l})

\* Batch.allocated_qty
allocated_qty(b) == SumQty(b.allocations)

\* Batch.available_qty
available_qty(b) == b.purchased_quantity - allocated_qty(b)

can_allocate_SkuOnly(b, line) == b.sku = line.sku

\* Batch.can_allocate
can_allocate(b, line) == b.sku = line.sku /\ available_qty(b) >= line.qty

BatchAllocate_NoIdempotenceCheck(b, line) ==
    IF ~can_allocate(b, line)
    THEN [batch |-> b, raised |-> CannotAllocateError(1)]
    ELSE LET b1 == [b EXCEPT !.allocations = @ \cup {line},
                             !.events = Append(@, BatchAllocated(line.orderid,
                                            line.sku, line.qty, b.reference))]
             b2 == IF available_qty(b1) = 0
                   THEN [b1 EXCEPT !.events = Append(@, OutOfStock(b.sku))]
                   ELSE b1
         IN [batch |-> b2, raised |-> None]

BatchAllocate_NoAdd(b, line) ==
    IF ~can_allocate(b, line)
    THEN [batch |-> b, raised |-> CannotAllocateError(1)]
    ELSE IF line \in b.allocations
    THEN [batch |-> b, raised |-> None]
    ELSE [batch |-> [b EXCEPT !.events = Append(@, BatchAllocated(line.orderid,
                                            line.sku, line.qty, b.reference))],
          raised |-> None]

BatchAllocate_OutOfStockAlways(b, line) ==
    IF ~can_allocate(b, line)
    THEN [batch |-> b, raised |-> CannotAllocateError(1)]
    ELSE IF line \in b.allocations
    THEN [batch |-> b, raised |-> None]
    ELSE [batch |-> [b EXCEPT !.allocations = @ \cup {line},
                              !.events = @ \o <<BatchAllocated(line.orderid,
                                            line.sku, line.qty, b.reference),
                                                OutOfStock(b.sku)>>],
          raised |-> None]

\* Batch.allocate: the batch afterwards and the exception raised (None when
\* the call returns).  The can_allocate test comes first, the membership
\* test second.
BatchAllocate(b, line) ==
    IF ~can_allocate(b, line)
    THEN [batch |-> b, raised |-> CannotAllocateError(1)]
    ELSE IF line \in b.allocations
    THEN [batch |-> b, raised |-> None]
    ELSE LET b1 == [b EXCEPT !.allocations = @ \cup {line},
                             !.events = Append(@, BatchAllocated(line.orderid,
                                            line.sku, line.qty, b.reference))]
             b2 == IF available_qty(b1) = 0
                   THEN [b1 EXCEPT !.events = Append(@, OutOfStock(b.sku))]
                   ELSE b1
         IN [batch |-> b2, raised |-> None]

BatchDeallocate_NoRemove(b, line) == b

\* Batch.deallocate
BatchDeallocate(b, line) ==
    IF line \in b.allocations
    THEN [b EXCEPT !.allocations = @ \ {line}]
    ELSE b

\* The bus variables in the specifications that run no bus.
BusUnused ==
    /\ repo = None /\ pending = None /\ queue = None /\ results = None
    /\ pc = None /\ current = None /\ todo = None /\ error = None
    /\ registry = None /\ hist = None

NoCall == [op |-> "none", line |-> None, raised |-> None, pre |-> None,
           result |-> None]

(***************************************************************************)
(* SpecBatch: a Batch created with purchased_quantity >= 0 and then driven *)
(* by allocate and deallocate calls with arbitrary lines.                  *)
(***************************************************************************)
InitBatch ==
    /\ \E q \in 0..MaxPurchased : batch = Batch("b1", "SKU-1", q, NoEta)
    /\ call = NoCall
    /\ product = None
    /\ BusUnused

DoBatchAllocate ==
    \E line \in OrderLine :
        /\ Len(batch.events) + 2 <= MaxEvents
        /\ LET r == BatchAllocate(batch, line)
           IN /\ batch' = r.batch
              /\ call' = [op |-> "allocate", line |-> line, raised |-> r.raised,
                          pre |-> batch, result |-> None]
        /\ UNCHANGED product
        /\ UNCHANGED busvars

DoBatchDeallocate ==
    \E line \in OrderLine :
        /\ batch' = BatchDeallocate(batch, line)
        /\ call' = [op |-> "deallocate", line |-> line, raised |-> None,
                    pre |-> batch, result |-> None]
        /\ UNCHANGED product
        /\ UNCHANGED busvars

NextBatch == DoBatchAllocate \/ DoBatchDeallocate

SpecBatch == InitBatch /\ [][NextBatch]_vars

(***************************************************************************)
(* Properties of SpecBatch.                                                *)
(***************************************************************************)

\* C1: no over-allocation.  In every state reached by allocate / deallocate
\* calls (returning or raising) with lines of positive qty on a batch created
\* with purchased_quantity >= 0, available_qty equals purchased_quantity
\* minus the sum of the qty of the allocated lines, and is never negative.
C1_NoOverAllocation ==
    /\ batch.purchased_quantity >= 0
    /\ \A l \in batch.allocations : l.qty > 0
    /\ available_qty(batch) = batch.purchased_quantity - SumQty(batch.allocations)
    /\ available_qty(batch) >= 0

\* C1 witness: an allocate call for more than is left was refused on a batch
\* that holds allocations.
C1_Witness ==
    /\ call.op = "allocate"
    /\ call.raised # None
    /\ batch.allocations # {}
    /\ available_qty(batch) < call.line.qty
    /\ call.line.sku = batch.sku

\* C3: Batch.allocate(line) returns normally whenever line is already in the
\* allocation set, also when available_qty is now smaller than line.qty.
C3_ReallocateNeverRaises ==
    (call.op = "allocate" /\ call.line \in call.pre.allocations)
        => call.raised = None

\* C9 as stated: for every b and l with b.can_allocate(l), after
\* b.allocate(l) the line is allocated and available_qty fell by l.qty.
C9_Original ==
    (call.op = "allocate" /\ can_allocate(call.pre, call.line))
        => /\ call.line \in batch.allocations
           /\ available_qty(batch) = available_qty(call.pre) - call.line.qty

\* C9 amended: for every b and l with b.can_allocate(l) and l not yet
\* allocated to b, after b.allocate(l) the line is allocated and
\* available_qty fell by exactly l.qty; when l was already allocated the
\* line stays allocated and available_qty is unchanged.
C9_AllocateDecreasesAvailable ==
    (call.op = "allocate" /\ can_allocate(call.pre, call.line))
        => /\ call.raised = None
           /\ call.line \in batch.allocations
           /\ available_qty(batch) =
                 IF call.line \in call.pre.allocations
                 THEN available_qty(call.pre)
                 ELSE available_qty(call.pre) - call.line.qty

\* C9 witness: a fresh line was allocated to a batch that already held one.
C9_Witness ==
    /\ call.op = "allocate"
    /\ can_allocate(call.pre, call.line)
    /\ call.line \notin call.pre.allocations
    /\ call.pre.allocations # {}
    /\ available_qty(batch) = available_qty(call.pre) - call.line.qty

\* C10: a second Batch.allocate(line) right after a first one leaves the
\* allocation set, available_qty and the event sequence as the first left
\* them (whether the second call returns or raises).
C10_SecondAllocateChangesNothing ==
    call.op = "allocate"
        => LET second == BatchAllocate(batch, call.line).batch
           IN /\ second.allocations = batch.allocations
              /\ available_qty(second) = available_qty(batch)
              /\ second.events = batch.events

\* C10 witness: the first call added the line and left room for it again, so
\* the second call passes can_allocate and meets the membership test.
C10_Witness ==
    /\ call.op = "allocate"
    /\ call.raised = None
    /\ call.line \notin call.pre.allocations
    /\ call.line \in batch.allocations
    /\ can_allocate(batch, call.line)
    /\ Len(batch.events) > Len(call.pre.events)

\* C11: a Batch.allocate call that newly adds a line appends exactly one
\* BatchAllocated event for that line, followed at once by one OutOfStock
\* event for the batch's sku if and only if available_qty is zero after the
\* addition; every other call (an allocate that raises, an allocate of a line
\* already allocated, a deallocate) leaves the event list as it was.
C11_EventsPerAllocate ==
    call.op \in {"allocate", "deallocate"}
        => batch.events =
              IF /\ call.op = "allocate"
                 /\ call.raised = None
                 /\ call.line \notin call.pre.allocations
              THEN call.pre.events
                      \o <<BatchAllocated(call.line.orderid, call.line.sku,
                                          call.line.qty, batch.reference)>>
                      \o (IF available_qty(batch) = 0
                          THEN <<OutOfStock(batch.sku)>>
                          ELSE <<>>)
              ELSE call.pre.events

\* C11 witness: a second line was added to a batch that had stock left after
\* its first one, and took the last of it: the first addition appended
\* BatchAllocated alone, the second BatchAllocated and OutOfStock.
C11_Witness ==
    /\ call.op = "allocate"
    /\ call.raised = None
    /\ call.line \notin call.pre.allocations
    /\ Len(call.pre.events) = 1
    /\ call.pre.events[1].type = "BatchAllocated"
    /\ available_qty(call.pre) > 0
    /\ available_qty(batch) = 0
    /\ Len(batch.events) = 3
    /\ batch.events[3] = OutOfStock(batch.sku)

\* C13: for a batch with a line allocated, deallocate(line) followed by
\* allocate(line) returns normally and leaves the allocation set and
\* available_qty as they were before the deallocate.
C13_DeallocateAllocateRoundTrip ==
    (call.op = "deallocate" /\ call.line \in call.pre.allocations)
        => LET again == BatchAllocate(batch, call.line)
           IN /\ again.raised = None
              /\ again.batch.allocations = call.pre.allocations
              /\ available_qty(again.batch) = available_qty(call.pre)

\* C13 witness: the line deallocated had filled the batch together with
\* another line that stays allocated.
C13_Witness ==
    /\ call.op = "deallocate"
    /\ call.line \in call.pre.allocations
    /\ call.line \notin batch.allocations
    /\ batch.allocations # {}
    /\ available_qty(call.pre) = 0
    /\ available_qty(batch) = call.line.qty

(***************************************************************************)
(* The Product aggregate.                                                  *)
(***************************************************************************)
BatchRefs == <<"b1", "b2">>

\* Product.__init__
Product(sku, batches) == [sku |-> sku, batches |-> batches]

\* The sort key  b.eta or date.min : a date is always truthy, None is not.
EtaKey(b) == IF b.eta = NoEta THEN DateMin ELSE b.eta

\* sorted(self.batches, key=...) as the sequence of positions in
\* self.batches; sorted is stable, so equal keys keep their list order.
RECURSIVE SortedFrom(_, _)
SortedFrom(batches, left) ==
    IF left = {} THEN <<>>
    ELSE LET i == CHOOSE x \in left : \A y \in left :
                     \/ EtaKey(batches[x]) < EtaKey(batches[y])
                     \/ EtaKey(batches[x]) = EtaKey(batches[y]) /\ x <= y
         IN <<i>> \o SortedFrom(batches, left \ {i})

sorted_batches(batches) == SortedFrom(batches, DOMAIN batches)

\* The first position of the sorted order whose batch can allocate, 0 when
\* the for loop finds none.
RECURSIVE FirstCanAllocate(_, _, _)
FirstCanAllocate(batches, order, line) ==
    IF order = <<>> THEN 0
    ELSE IF can_allocate(batches[Head(order)], line) THEN Head(order)
    ELSE FirstCanAllocate(batches, Tail(order), line)

ProductAllocate_SortInPlace(p, line) ==
    IF line.sku # p.sku
    THEN [product |-> p, raised |-> CannotAllocateError(1), result |-> None,
          chosen |-> 0]
    ELSE LET order == sorted_batches(p.batches)
             sorted == [k \in DOMAIN order |-> p.batches[order[k]]]
             i == FirstCanAllocate(sorted, [k \in DOMAIN order |-> k], line)
         IN IF i = 0
            THEN [product |-> [p EXCEPT !.batches = sorted],
                  raised |-> CannotAllocateError(1),
                  result |-> None, chosen |-> 0]
            ELSE LET r == BatchAllocate(sorted[i], line)
                 IN [product |-> [p EXCEPT !.batches =
                                      [sorted EXCEPT ![i] = r.batch]],
                     raised |-> r.raised,
                     result |-> IF r.raised = None
                                THEN sorted[i].reference ELSE None,
                     chosen |-> i]

\* Product.allocate: the product afterwards, the exception raised (None when
\* the call returns), the reference returned and the position of the batch
\* chosen.
ProductAllocate(p, line) ==
    IF line.sku # p.sku
    THEN [product |-> p, raised |-> CannotAllocateError(1), result |-> None,
          chosen |-> 0]
    ELSE LET i == FirstCanAllocate(p.batches, sorted_batches(p.batches), line)
         IN IF i = 0
            THEN [product |-> p, raised |-> CannotAllocateError(1),
                  result |-> None, chosen |-> 0]
            ELSE LET r == BatchAllocate(p.batches[i], line)
                 IN [product |-> [p EXCEPT !.batches[i] = r.batch],
                     raised |-> r.raised,
                     result |-> IF r.raised = None
                                THEN p.batches[i].reference ELSE None,
                     chosen |-> i]

(***************************************************************************)
(* SpecProduct: a Product owning batches of its own sku (as add_batch      *)
(* builds them), driven by Product.allocate calls with arbitrary lines.    *)
(***************************************************************************)
InitProduct ==
    /\ \E q1, q2 \in 0..MaxPurchased : \E e1, e2 \in Etas :
          product = Product("SKU-1",
                        << Batch(BatchRefs[1], "SKU-1", q1, e1),
                           Batch(BatchRefs[2], "SKU-1", q2, e2) >>)
    /\ call = NoCall
    /\ batch = None
    /\ BusUnused

DoProductAllocate ==
    \E line \in OrderLine :
        /\ \A i \in DOMAIN product.batches :
              Len(product.batches[i].events) + 2 <= MaxEvents
        /\ LET r == ProductAllocate(product, line)
           IN /\ product' = r.product
              /\ call' = [op |-> "product_allocate", line |-> line,
                          raised |-> r.raised, pre |-> product,
                          result |-> r.result]
        /\ UNCHANGED batch
        /\ UNCHANGED busvars

NextProduct == DoProductAllocate

SpecProduct == InitProduct /\ [][NextProduct]_vars

(***************************************************************************)
(* Properties of SpecProduct.                                              *)
(***************************************************************************)

\* eta a is at least as early as eta b, a batch without eta coming before
\* every batch that has one.
EtaNoLater(a, b) ==
    \/ a = NoEta
    \/ a # NoEta /\ b # NoEta /\ a <= b

\* C2: Product.allocate(line) with line.sku = product.sku that returns has
\* allocated to, and returned the reference of, a batch that could allocate
\* the line and whose eta is the earliest among all owned batches that could;
\* a batch with no eta is preferred over every batch that has one.
C2_EarliestEtaChosen ==
    (call.op = "product_allocate" /\ call.raised = None
        /\ call.line.sku = call.pre.sku)
    => \E i \in DOMAIN call.pre.batches :
          /\ call.result = call.pre.batches[i].reference
          /\ can_allocate(call.pre.batches[i], call.line)
          /\ call.line \in product.batches[i].allocations
          /\ \A j \in DOMAIN call.pre.batches :
                can_allocate(call.pre.batches[j], call.line)
                   => EtaNoLater(call.pre.batches[i].eta,
                                 call.pre.batches[j].eta)


\* C12: Product.allocate(line) fails with CannotAllocateError (the spec's
\* AllocationError) when line.sku differs from product.sku, and also when the
\* sku matches but no owned batch can allocate the line; the exception that
\* reaches the caller is of that class and of no other.
C12_FailsWithAllocationError ==
    (/\ call.op = "product_allocate"
     /\ \/ call.line.sku # call.pre.sku
        \/ \A i \in DOMAIN call.pre.batches :
              ~can_allocate(call.pre.batches[i], call.line))
        => call.raised = "CannotAllocateError"

\* C17: within one Product an OrderLine is in the allocation set of at most
\* one batch, in every state reached by Product.allocate calls; a repeated
\* Product.allocate of a line held by batch A never puts it into another
\* batch B, also when A has less than line.qty left.
C17_LineInAtMostOneBatch ==
    \A i, j \in DOMAIN product.batches :
        i # j =>
            product.batches[i].allocations \cap product.batches[j].allocations
                = {}

\* C18: Product.allocate changes at most one batch.  When it returns, the
\* batch whose reference it returns is the only one that differs, and it
\* differs in its allocation set and event list alone; every other batch and
\* the order of product.batches are as before.  When it raises, the product
\* is as before.
C18_AtMostOneBatchChanges ==
    call.op = "product_allocate"
        => /\ product.sku = call.pre.sku
           /\ DOMAIN product.batches = DOMAIN call.pre.batches
           /\ \A i \in DOMAIN product.batches :
                 /\ product.batches[i].reference
                       = call.pre.batches[i].reference
                 /\ [product.batches[i] EXCEPT !.allocations = {},
                                               !.events = <<>>]
                       = [call.pre.batches[i] EXCEPT !.allocations = {},
                                                    !.events = <<>>]
                 /\ (call.raised # None
                        \/ product.batches[i].reference # call.result)
                       => product.batches[i] = call.pre.batches[i]

\* C18 witness: the call returned the second batch of the list, which the
\* eta order puts first, added the line to it and left the first batch, which
\* could have taken the line too, untouched in its place.
C18_Witness ==
    /\ call.op = "product_allocate"
    /\ call.raised = None
    /\ call.result = product.batches[2].reference
    /\ call.line \in product.batches[2].allocations
    /\ call.line \notin call.pre.batches[2].allocations
    /\ Len(product.batches[2].events) > Len(call.pre.batches[2].events)
    /\ can_allocate(call.pre.batches[1], call.line)
    /\ product.batches[1] = call.pre.batches[1]
    /\ product.batches[1].allocations # {}

(***************************************************************************)
(* Messages.                                                               *)
(***************************************************************************)
\* commands.py
CreateBatch(ref, sku, qty, eta) ==
    [type |-> "CreateBatch", ref |-> ref, sku |-> sku, qty |-> qty, eta |-> eta]

Allocate(orderid, sku, qty) ==
    [type |-> "Allocate", orderid |-> orderid, sku |-> sku, qty |-> qty]

ChangeBatchQuantity(ref, qty) ==
    [type |-> "ChangeBatchQuantity", ref |-> ref, qty |-> qty]

\* events.Allocated, the Event class EVENT_HANDLERS registers; events.py
\* declares neither it nor events.Event.
Allocated(orderid) == [type |-> "Allocated", orderid |-> orderid]

NoMessage == [type |-> None]

\* isinstance(msg, commands.Command): the subclasses of Command.
IsCommand(msg) == msg.type \in {"CreateBatch", "Allocate", "ChangeBatchQuantity"}

\* isinstance(msg, events.Event).  BatchAllocated and OutOfStock are declared
\* in events.py without a base class, so they are instances of neither
\* events.Event nor commands.Command.
IsEvent(msg) == msg.type \in {"Allocated"}

(***************************************************************************)
(* Handler registries.                                                     *)
(***************************************************************************)
\* EVENT_HANDLERS as messagebus.py builds it.
EVENT_HANDLERS ==
    [Allocated |-> <<"publish_allocated_event">>,
     OutOfStock |-> <<"send_out_of_stock_notification">>]

\* EVENT_HANDLERS is a module-level dict that wiring and tests rebind; the
\* bus is run under the registry above and under registries with two and
\* with no handlers for an event.
Registries ==
    { EVENT_HANDLERS,
      [Allocated |-> <<"publish_allocated_event", "send_out_of_stock_notification">>,
       OutOfStock |-> <<"send_out_of_stock_notification">>],
      [OutOfStock |-> <<"send_out_of_stock_notification">>] }

\* EVENT_HANDLERS.get(type(event), [])
HandlersFor(reg, event) ==
    IF event.type \in DOMAIN reg THEN reg[event.type] ELSE <<>>

(***************************************************************************)
(* Repository and Unit of Work.                                            *)
(***************************************************************************)
NoProduct == [sku |-> None, batches |-> <<>>]

RECURSIVE EventsOf(_)
\* The events on the batches of a product, batch by batch.
EventsOf(batches) ==
    IF batches = <<>> THEN <<>>
    ELSE Head(batches).events \o EventsOf(Tail(batches))

\* The product as the repository holds it once its events are collected.
Drained(p) ==
    [p EXCEPT !.batches = [i \in DOMAIN p.batches |->
                              [p.batches[i] EXCEPT !.events = <<>>]]]

\* uow.collect_new_events(): every event staged on the aggregates since the
\* last call, in the order staged; the staged events are drained.
collect_new_events(staged) == [events |-> staged, pending |-> <<>>]

(***************************************************************************)
(* Command handlers (handlers.py).  Each takes the command, the repository *)
(* and whether uow.commit() succeeds, and gives the repository afterwards  *)
(* (the scope is rolled back unless commit succeeded), the exception       *)
(* raised, the value returned, the events staged on the aggregates, the    *)
(* number of commits that took effect and of uow.commit() calls made.      *)
(***************************************************************************)
Outcome(rp, raised, result, emitted, commits, calls) ==
    [repo |-> rp, raised |-> raised, result |-> result, emitted |-> emitted,
     commits |-> commits, calls |-> calls]

add_batch(command, rp, commitOk) ==
    LET found == rp[command.sku]
        p == IF found = NoProduct THEN Product(command.sku, <<>>) ELSE found
        p1 == [p EXCEPT !.batches = Append(@, Batch(command.ref, command.sku,
                                               command.qty, command.eta))]
    IN IF commitOk
       THEN Outcome([rp EXCEPT ![command.sku] = p1], None, None, <<>>, 1, 1)
       ELSE Outcome(rp, "CommitError", None, <<>>, 0, 1)

allocate_CommitFirst(command, rp, commitOk) ==
    LET line == [orderid |-> command.orderid, sku |-> command.sku,
                 qty |-> command.qty]
        p == rp[command.sku]
    IN IF p = NoProduct
       THEN Outcome(rp, "InvalidSku", None, <<>>, 0, 0)
       ELSE IF ~commitOk
       THEN Outcome(rp, "CommitError", None, <<>>, 0, 1)
       ELSE LET r == ProductAllocate(p, line)
            IN IF r.raised # None
               THEN Outcome(rp, r.raised, None, <<>>, 1, 1)
               ELSE Outcome([rp EXCEPT ![command.sku] = Drained(r.product)],
                            None, r.result, EventsOf(r.product.batches), 1, 1)

allocate(command, rp, commitOk) ==
    LET line == [orderid |-> command.orderid, sku |-> command.sku,
                 qty |-> command.qty]
        p == rp[command.sku]
    IN IF p = NoProduct
       THEN Outcome(rp, "InvalidSku", None, <<>>, 0, 0)
       ELSE LET r == ProductAllocate(p, line)
            IN IF r.raised # None
               THEN Outcome(rp, r.raised, None, <<>>, 0, 0)
               ELSE IF commitOk
               THEN Outcome([rp EXCEPT ![command.sku] = Drained(r.product)],
                            None, r.result, EventsOf(r.product.batches), 1, 1)
               ELSE Outcome(rp, "CommitError", None,
                            EventsOf(r.product.batches), 0, 1)

\* uow.products.get_by_batchref is no method of the repository
\* (repository.py defines add and get only): the lookup raises.
change_batch_quantity(command, rp, commitOk) ==
    Outcome(rp, "AttributeError", None, <<>>, 0, 0)

\* COMMAND_HANDLERS[type(command)](command, uow=uow)
COMMAND_HANDLERS(command, rp, commitOk) ==
    CASE command.type = "CreateBatch" -> add_batch(command, rp, commitOk)
      [] command.type = "Allocate" -> allocate(command, rp, commitOk)
      [] command.type = "ChangeBatchQuantity" ->
            change_batch_quantity(command, rp, commitOk)

(***************************************************************************)
(* The dispatch functions of messagebus.py.                                *)
(***************************************************************************)
\* What a failed scope leaves staged: the rollback may or may not discard the
\* events the handler had put on the aggregates (kept says which).
AfterFailure(staged, emitted, kept) ==
    IF kept THEN staged \o emitted ELSE staged

HandlerPass_HarvestAlways(q, staged, emitted, raised, kept) ==
    [queue |-> q \o (staged \o emitted), pending |-> <<>>,
     harvested |-> staged \o emitted]

\* One pass of handle_event's loop body for a handler that staged `emitted`
\* and then returned (raised = None) or raised: the harvest is the last
\* statement of the try block, the except clause only logs.
HandlerPass(q, staged, emitted, raised, kept) ==
    IF raised = None
    THEN LET c == collect_new_events(staged \o emitted)
         IN [queue |-> q \o c.events, pending |-> c.pending,
             harvested |-> c.events]
    ELSE [queue |-> q, pending |-> AfterFailure(staged, emitted, kept),
          harvested |-> <<>>]

RemainingHandlers_StopOnRaise(handlers, raised) ==
    IF raised = None THEN Tail(handlers) ELSE <<>>

\* The handlers handle_event still invokes after one returned or raised.
RemainingHandlers(handlers, raised) == Tail(handlers)

handle_command_HarvestOnFailure(command, q, staged, rp, commitOk, kept) ==
    LET r == COMMAND_HANDLERS(command, rp, commitOk)
    IN [queue |-> q \o (staged \o r.emitted), pending |-> <<>>,
        harvested |-> staged \o r.emitted, raised |-> r.raised,
        returned |-> IF r.raised = None THEN <<r.result>> ELSE <<>>,
        repo |-> r.repo, emitted |-> r.emitted, commits |-> r.commits,
        calls |-> r.calls]

\* handle_command: the handler's result is returned after the harvest; an
\* exception is logged and raised again.
handle_command(command, q, staged, rp, commitOk, kept) ==
    LET r == COMMAND_HANDLERS(command, rp, commitOk)
    IN IF r.raised = None
       THEN LET c == collect_new_events(staged \o r.emitted)
            IN [queue |-> q \o c.events, pending |-> c.pending,
                harvested |-> c.events, raised |-> None,
                returned |-> <<r.result>>, repo |-> r.repo,
                emitted |-> r.emitted, commits |-> r.commits,
                calls |-> r.calls]
       ELSE [queue |-> q, pending |-> AfterFailure(staged, r.emitted, kept),
             harvested |-> <<>>, raised |-> r.raised, returned |-> <<>>,
             repo |-> r.repo, emitted |-> r.emitted, commits |-> r.commits,
             calls |-> r.calls]

Pop_Last(q) == [msg |-> q[Len(q)], queue |-> SubSeq(q, 1, Len(q) - 1)]

\* queue.pop(0)
Pop(q) == [msg |-> Head(q), queue |-> Tail(q)]

(***************************************************************************)
(* SpecBus: callers run messagebus.handle(message, uow), one run after the *)
(* other, against one repository.                                          *)
(***************************************************************************)
NoLast == [kind |-> "none", handler |-> None, raised |-> None,
           emitted |-> <<>>, queue_before |-> <<>>, pending_before |-> <<>>,
           results_before |-> <<>>, todo_before |-> <<>>, repo_before |-> None,
           commits |-> 0, calls |-> 0]

NoHist == [runs |-> 0, initial |-> NoMessage, dispatched |-> <<>>,
           harvested |-> <<>>, invoked |-> <<>>, outcomes |-> <<>>,
           returns |-> <<>>, last |-> NoLast]

\* Messages a caller submits.
Submitted ==
    { CreateBatch("b1", "SKU-1", 1, NoEta), CreateBatch("b2", "SKU-1", 2, DateMin),
      CreateBatch("b1", "SKU-2", 1, NoEta),
      Allocate("o1", "SKU-1", 1), Allocate("o1", "SKU-1", 2),
      Allocate("o1", "SKU-2", 1),
      ChangeBatchQuantity("b1", 1),
      Allocated("o1") }

\* Events the event handlers stage on the aggregates they touch:
\* collect_new_events hands over events, never commands.
Staged == { Allocated("o1"), Allocated("o2"), OutOfStock("SKU-1") }

RECURSIVE CountBatches(_, _)
CountBatches(rp, skus) ==
    IF skus = {} THEN 0
    ELSE LET k == CHOOSE x \in skus : TRUE
         IN Len(rp[k].batches) + CountBatches(rp, skus \ {k})

InitBus ==
    /\ repo = [k \in Skus |-> NoProduct]
    /\ pending = <<>>
    /\ queue = <<>>
    /\ results = <<>>
    /\ pc = "idle"
    /\ current = NoMessage
    /\ todo = <<>>
    /\ error = None
    /\ registry \in Registries
    /\ hist = NoHist
    /\ batch = None /\ call = NoCall /\ product = None

\* handle(message, uow): results = [], queue = [message]
Handle ==
    \E message \in Submitted :
        /\ pc \in {"idle", "returned", "raised"}
        /\ hist.runs < MaxRuns
        /\ message.type = "CreateBatch" => CountBatches(repo, Skus) < MaxBatches
        /\ results' = <<>>
        /\ queue' = <<message>>
        /\ pc' = "loop"
        /\ current' = NoMessage
        /\ todo' = <<>>
        /\ error' = None
        /\ hist' = [NoHist EXCEPT !.runs = hist.runs + 1, !.initial = message]
        /\ UNCHANGED <<repo, pending, registry>>
        /\ UNCHANGED domvars

\* while queue: msg = queue.pop(0); an Event: handle_event starts its loop.
PopEvent ==
    /\ pc = "loop" /\ queue # <<>>
    /\ \E p \in {Pop(queue)} :
          /\ IsEvent(p.msg)
          /\ queue' = p.queue
          /\ current' = p.msg
          /\ todo' = HandlersFor(registry, p.msg)
          /\ pc' = IF HandlersFor(registry, p.msg) = <<>> THEN "loop" ELSE "event"
          /\ hist' = [hist EXCEPT !.dispatched = Append(@, p.msg),
                                  !.invoked = <<>>, !.outcomes = <<>>,
                                  !.last = NoLast]
    /\ UNCHANGED <<repo, pending, results, error, registry>>
    /\ UNCHANGED domvars

\* handle_event: the next handler runs; it stages messages and returns or
\* raises.
RunEventHandler ==
    /\ pc = "event" /\ todo # <<>>
    /\ \E emitted \in {<<>>} \cup {<<m>> : m \in Staged} :
       \E raised \in {None, "HandlerError"} :
       \E kept \in BOOLEAN :
          /\ emitted # <<>> => Len(hist.harvested) + Len(pending) < MaxHarvest
          /\ raised = None => kept
          /\ \E r \in {HandlerPass(queue, pending, emitted, raised, kept)} :
             \E rest \in {RemainingHandlers(todo, raised)} :
                /\ queue' = r.queue
                /\ pending' = r.pending
                /\ todo' = rest
                /\ pc' = IF rest = <<>> THEN "loop" ELSE "event"
                /\ hist' = [hist EXCEPT
                      !.harvested = @ \o r.harvested,
                      !.invoked = Append(@, Head(todo)),
                      !.outcomes = Append(@, raised),
                      !.last = [kind |-> "event_handler", handler |-> Head(todo),
                                raised |-> raised, emitted |-> emitted,
                                queue_before |-> queue,
                                pending_before |-> pending,
                                results_before |-> results,
                                todo_before |-> todo,
                                repo_before |-> None,
                                commits |-> 0, calls |-> 0]]
    /\ UNCHANGED <<repo, results, current, error, registry>>
    /\ UNCHANGED domvars

\* msg is a Command: result = handle_command(msg, queue, uow);
\* results.append(result), or the handler's exception leaves handle.
PopCommand ==
    /\ pc = "loop" /\ queue # <<>>
    /\ \E p \in {Pop(queue)} :
          /\ IsCommand(p.msg)
          /\ \E commitOk \in BOOLEAN : \E kept \in BOOLEAN :
             \E r \in {handle_command(p.msg, p.queue, pending, repo,
                                      commitOk, kept)} :
                /\ r.raised = None => kept
                /\ current' = p.msg
                /\ queue' = r.queue
                /\ pending' = r.pending
                /\ repo' = r.repo
                /\ results' = results \o r.returned
                /\ pc' = IF r.raised = None THEN "loop" ELSE "raised"
                /\ error' = r.raised
                /\ hist' = [hist EXCEPT
                      !.dispatched = Append(@, p.msg),
                      !.harvested = @ \o r.harvested,
                      !.invoked = <<>>,
                      !.outcomes = <<>>,
                      !.returns = IF r.raised = None
                                  THEN @ \o r.returned ELSE @,
                      !.last = [kind |-> "command", handler |-> p.msg.type,
                                raised |-> r.raised, emitted |-> r.emitted,
                                queue_before |-> p.queue,
                                pending_before |-> pending,
                                results_before |-> results,
                                todo_before |-> <<>>,
                                repo_before |-> repo,
                                commits |-> r.commits, calls |-> r.calls]]
    /\ UNCHANGED <<todo, registry>>
    /\ UNCHANGED domvars

\* msg is neither: raise Exception(f"Unknown message type: {msg}")
PopUnknown ==
    /\ pc = "loop" /\ queue # <<>>
    /\ \E p \in {Pop(queue)} :
          /\ ~IsEvent(p.msg) /\ ~IsCommand(p.msg)
          /\ queue' = p.queue
          /\ current' = p.msg
          /\ pc' = "raised"
          /\ error' = "Exception"
          /\ hist' = [hist EXCEPT !.dispatched = Append(@, p.msg),
                                  !.invoked = <<>>, !.outcomes = <<>>,
                                  !.last = NoLast]
    /\ UNCHANGED <<repo, pending, results, todo, registry>>
    /\ UNCHANGED domvars

\* the queue is empty: return results
Return ==
    /\ pc = "loop" /\ queue = <<>>
    /\ pc' = "returned"
    /\ UNCHANGED <<repo, pending, queue, results, current, todo, error,
                   registry, hist>>
    /\ UNCHANGED domvars

NextBus ==
    \/ Handle
    \/ PopEvent
    \/ RunEventHandler
    \/ PopCommand
    \/ PopUnknown
    \/ Return

SpecBus == InitBus /\ [][NextBus]_vars

(***************************************************************************)
(* SpecBusQuiet: the bus with event handlers that stage no events; each    *)
(* handler call returns or raises.  handle is one sequential loop, so a    *)
(* step of a run that can be taken is taken (weak fairness on every step   *)
(* but Handle, which is the caller's).                                     *)
(***************************************************************************)
\* handle_event: the next handler runs, stages nothing, and returns or
\* raises.
RunQuietEventHandler ==
    /\ pc = "event" /\ todo # <<>>
    /\ \E raised \in {None, "HandlerError"} :
       \E r \in {HandlerPass(queue, pending, <<>>, raised, TRUE)} :
       \E rest \in {RemainingHandlers(todo, raised)} :
          /\ queue' = r.queue
          /\ pending' = r.pending
          /\ todo' = rest
          /\ pc' = IF rest = <<>> THEN "loop" ELSE "event"
          /\ hist' = [hist EXCEPT
                !.harvested = @ \o r.harvested,
                !.invoked = Append(@, Head(todo)),
                !.outcomes = Append(@, raised),
                !.last = [kind |-> "event_handler", handler |-> Head(todo),
                          raised |-> raised, emitted |-> <<>>,
                          queue_before |-> queue,
                          pending_before |-> pending,
                          results_before |-> results,
                          todo_before |-> todo,
                          repo_before |-> None,
                          commits |-> 0, calls |-> 0]]
    /\ UNCHANGED <<repo, results, current, error, registry>>
    /\ UNCHANGED domvars

NextBusQuiet ==
    \/ Handle
    \/ PopEvent
    \/ RunQuietEventHandler
    \/ PopCommand
    \/ PopUnknown
    \/ Return

SpecBusQuiet ==
    /\ InitBus
    /\ [][NextBusQuiet]_vars
    /\ WF_vars(PopEvent)
    /\ WF_vars(RunQuietEventHandler)
    /\ WF_vars(PopCommand)
    /\ WF_vars(PopUnknown)
    /\ WF_vars(Return)

(***************************************************************************)
(* Properties of SpecBus.                                                  *)
(***************************************************************************)

\* C4: when the handler of a Command raises, handle ends with that same
\* exception; no result is added for the Command, the messages still queued
\* are left undispatched, and nothing is harvested into the queue.
C4_CommandFailurePropagates ==
    (hist.last.kind = "command" /\ hist.last.raised # None)
        => /\ pc = "raised"
           /\ error = hist.last.raised
           /\ results = hist.last.results_before
           /\ queue = hist.last.queue_before
           /\ <<hist.initial>> \o hist.harvested = hist.dispatched \o queue

\* C4 witness: a Command failed after its handler had staged events
\* (uow.commit raised after Product.allocate); handle ended with that
\* exception, no result and nothing harvested.
C4_Witness ==
    /\ pc = "raised"
    /\ hist.last.kind = "command"
    /\ hist.last.emitted # <<>>
    /\ error = "CommitError"
    /\ hist.harvested = <<>>
    /\ results = <<>>

\* C5: a raising Event handler is isolated.  Every handler registered for
\* the event is invoked, in registration order, whatever the earlier ones
\* did; handle does not end with the handler's exception; the queued
\* messages and the results are as they were before the handler ran.
C5_EventHandlerFailureIsolated ==
    /\ (IsEvent(current) /\ pc \in {"event", "loop", "returned"})
          => /\ hist.invoked \o todo = HandlersFor(registry, current)
             /\ (pc # "event" => todo = <<>>)
    /\ (hist.last.kind = "event_handler" /\ hist.last.raised # None)
          => /\ pc \in {"event", "loop", "returned"}
             /\ error = None
             /\ queue = hist.last.queue_before
             /\ results = hist.last.results_before
    /\ pc = "returned" => results = hist.returns

\* C5 witness: the first of two handlers raised, the second ran after it,
\* and handle returned with messages dispatched after that event.
C5_Witness ==
    /\ pc = "returned"
    /\ IsEvent(hist.initial)
    /\ Len(hist.dispatched) > 1
    /\ \E i \in 1..Len(hist.dispatched) :
          /\ IsEvent(hist.dispatched[i])
          /\ Len(HandlersFor(registry, hist.dispatched[i])) = 2
    /\ Len(hist.invoked) = 2
    /\ hist.outcomes[1] # None

\* C6 as stated: after each invocation of an Event handler, whether it
\* returned or raised, the events staged so far are in the queue.
C6_Original ==
    hist.last.kind = "event_handler"
        => /\ queue = hist.last.queue_before
                      \o (hist.last.pending_before \o hist.last.emitted)
           /\ pending = <<>>

\* C6 amended: after an Event handler that returns, every event staged so
\* far is appended to the queue before the next handler or message is
\* processed; after an Event handler that raises, nothing is harvested: the
\* queue is as it was before the handler ran.
C6_HarvestAfterReturningHandler ==
    hist.last.kind = "event_handler"
        => IF hist.last.raised = None
           THEN /\ queue = hist.last.queue_before
                           \o (hist.last.pending_before \o hist.last.emitted)
                /\ pending = <<>>
           ELSE queue = hist.last.queue_before

\* C6 witness: a handler staged an event and raised, and the queue did not
\* receive it.
C6_Witness ==
    /\ hist.last.kind = "event_handler"
    /\ hist.last.raised # None
    /\ hist.last.emitted # <<>>
    /\ queue = hist.last.queue_before
    /\ pc = "event"

RECURSIVE CommandsIn(_)
CommandsIn(msgs) ==
    IF msgs = <<>> THEN <<>>
    ELSE (IF IsCommand(Head(msgs)) THEN <<Head(msgs)>> ELSE <<>>)
         \o CommandsIn(Tail(msgs))

\* C7: when handle returns, results holds one entry per Command processed,
\* in processing order, each the handler's return value (for Allocate the
\* reference of the batch Product.allocate chose); Event handlers add none;
\* and the BatchAllocated / OutOfStock events harvested after a Command are
\* dispatched without making handle fail: handle fails only with the
\* exception of a Command handler.
C7_ResultsPerCommand ==
    /\ pc = "returned"
          => /\ Len(results) = Len(CommandsIn(hist.dispatched))
             /\ results = hist.returns
    /\ (hist.last.kind = "command" /\ hist.last.raised = None
            /\ current.type = "Allocate")
          => results[Len(results)] =
                ProductAllocate(hist.last.repo_before[current.sku],
                    [orderid |-> current.orderid, sku |-> current.sku,
                     qty |-> current.qty]).result
    /\ pc = "raised" => (hist.last.kind = "command" /\ error = hist.last.raised)

\* C8: the queue is processed first in, first out.  The messages dispatched
\* so far followed by those still queued are the submitted message followed
\* by the harvested ones in harvest order; and no message is taken before
\* all handlers of the one before it have run.
C8_Fifo ==
    hist.runs > 0
        => /\ <<hist.initial>> \o hist.harvested = hist.dispatched \o queue
           /\ (pc \in {"loop", "returned"} /\ IsEvent(current))
                 => /\ todo = <<>>
                    /\ hist.invoked = HandlersFor(registry, current)
           /\ (pc = "event") => todo # <<>>

\* C8 witness: two different messages were harvested and both were
\* dispatched, the one harvested first before the other.
C8_Witness ==
    /\ pc = "returned"
    /\ Len(hist.harvested) >= 2
    /\ hist.harvested[1] # hist.harvested[2]
    /\ hist.dispatched = <<hist.initial>> \o hist.harvested

\* The positions of the batches the repository holds, as <<sku, index>>.
OwnedBatches(rp) ==
    { x \in Skus \X (1..MaxBatches) : x[2] \in DOMAIN rp[x[1]].batches }

\* C14: every Command handler calls uow.commit() at most once per scope and
\* only after its domain operation has succeeded; whenever the handler
\* raises (InvalidSku, the failure of Product.allocate, a missing
\* collaborator method, a failing commit) no commit has taken effect and the
\* committed state is the state before the Command.
C14_CommitOnceAfterSuccess ==
    hist.last.kind = "command"
        => /\ hist.last.calls <= 1
           /\ hist.last.commits <= hist.last.calls
           /\ hist.last.calls = 1 =>
                 CASE current.type = "CreateBatch" -> TRUE
                   [] current.type = "Allocate" ->
                        /\ hist.last.repo_before[current.sku] # NoProduct
                        /\ ProductAllocate(
                              hist.last.repo_before[current.sku],
                              [orderid |-> current.orderid,
                               sku |-> current.sku,
                               qty |-> current.qty]).raised = None
                   [] current.type = "ChangeBatchQuantity" -> FALSE
           /\ hist.last.raised # None =>
                 /\ hist.last.commits = 0
                 /\ repo = hist.last.repo_before

\* C14 witness: an Allocate whose Product.allocate succeeded and staged
\* events reached its one commit call, the commit failed, and the repository
\* is as before the Command.
C14_Witness ==
    /\ hist.last.kind = "command"
    /\ current.type = "Allocate"
    /\ hist.last.raised = "CommitError"
    /\ hist.last.calls = 1
    /\ hist.last.commits = 0
    /\ hist.last.emitted # <<>>
    /\ repo = hist.last.repo_before
    /\ pc = "raised"

\* C15: dispatching ChangeBatchQuantity(ref, qty) for a batch reference some
\* Product owns completes without an exception, the batch then has
\* purchased_quantity = qty, and its available_qty is not negative.
C15_ChangeBatchQuantitySucceeds ==
    (/\ hist.last.kind = "command"
     /\ current.type = "ChangeBatchQuantity"
     /\ \E x \in OwnedBatches(hist.last.repo_before) :
           hist.last.repo_before[x[1]].batches[x[2]].reference = current.ref)
        => /\ hist.last.raised = None
           /\ \E x \in OwnedBatches(repo) :
                 /\ repo[x[1]].batches[x[2]].reference = current.ref
                 /\ repo[x[1]].batches[x[2]].purchased_quantity = current.qty
                 /\ available_qty(repo[x[1]].batches[x[2]]) >= 0

\* C16: an Allocate for a sku no Product has, and a ChangeBatchQuantity for
\* a batch reference no Product owns, each fail with InvalidSku, and the
\* repository is as before: no Product created, no batch changed, nothing
\* committed.
C16_UnknownFailsWithInvalidSku ==
    (/\ hist.last.kind = "command"
     /\ \/ /\ current.type = "Allocate"
           /\ hist.last.repo_before[current.sku] = NoProduct
        \/ /\ current.type = "ChangeBatchQuantity"
           /\ \A x \in OwnedBatches(hist.last.repo_before) :
                 hist.last.repo_before[x[1]].batches[x[2]].reference
                    # current.ref)
        => /\ hist.last.raised = "InvalidSku"
           /\ hist.last.commits = 0
           /\ repo = hist.last.repo_before

\* C20: after any sequence of CreateBatch commands through the bus, no two
\* batches, of one Product or of two, share a reference, and every batch a
\* Product owns has that Product's sku.
C20_ReferencesUniqueAndOwned ==
    /\ \A x, y \in OwnedBatches(repo) :
          x # y => repo[x[1]].batches[x[2]].reference
                      # repo[y[1]].batches[y[2]].reference
    /\ \A x \in OwnedBatches(repo) :
          /\ repo[x[1]].sku = x[1]
          /\ repo[x[1]].batches[x[2]].sku = repo[x[1]].sku

(***************************************************************************)
(* Properties of SpecBusQuiet.                                             *)
(***************************************************************************)

\* A run of handle is under way / has ended.
Running == pc \in {"loop", "event"}
Ended == pc \in {"returned", "raised"}

\* Every run of handle under quiet event handlers ends, and none returns
\* with messages still queued.
HandleRunEnds ==
    /\ [](pc = "returned" => queue = <<>>)
    /\ Running ~> Ended

\* C19: for a single submitted message, when event handlers stage no events
\* and every handler call returns or raises, handle terminates, and in one
\* of two ways: the queue is empty and handle returns, or the failure of a
\* Command handler propagates; it never returns with messages queued.
C19_HandleTerminates ==
    /\ [](pc = "returned" => queue = <<>>)
    /\ [](pc = "raised" => /\ hist.last.kind = "command"
                          /\ hist.last.raised # None
                          /\ error = hist.last.raised)
    /\ Running ~> Ended

=============================================================================
